---- MODULE Spec2Model ----
(***************************************************************************)
(* Model of the threshold job session of the secret store                   *)
(* (secret_store/src/key_server_cluster/jobs/job_session.rs).               *)
(*                                                                          *)
(* One JobSession is modelled together with its executor and its transport. *)
(* Every public operation of the session is one action; the decisions of    *)
(* the executor and the success of the transport are inputs of the action.  *)
(* The variable last records the latest call: its arguments, what the       *)
(* executor decided, what it returned, the messages it sent (in the order   *)
(* of sending) and the session data as they were before the call. The       *)
(* transport keeps no state the session reads: the messages a call gives it *)
(* are the fields sent_requests and sent_responses of the call's record.    *)
(* The history variable initialized tells whether initialize has returned   *)
(* Ok on this session.                                                      *)
(***************************************************************************)
EXTENDS Integers, FiniteSets, Sequences, TLC

VARIABLES meta, executor, state, active_data, initialized, last

vars == <<meta, executor, state, active_data, initialized, last>>

\* ------------------------------------------------------------------ bounds

\* Node ids are 1..MaxNode.
MaxNode == 3
\* Thresholds are 0..MaxThreshold.
MaxThreshold == 2

NodeId == 1..MaxNode

\* Partial responses delivered to the master: one odd, one even.
ResponseValues == {3, 4}
\* Partial requests delivered to a slave: 11 is refused by the squaring executor.
RequestValues == {2, 11}

\* ------------------------------------------------------------------- types

JobSessionState == {"Inactive", "Active", "Finished", "Failed"}

JobPartialResponseAction == {"Ignore", "Reject", "Accept"}

Executors == {"Generic", "SquaredSum"}

\* The errors a call returns, "Ok" standing for Ok(..).
ExecutorError == "ExecutorError"
TransportError == "TransportError"

\* The empty response map.
NoResponses == [n \in {} |-> 0]

\* active_data: None.
NoActiveData ==
  [present |-> FALSE, requests |-> {}, rejects |-> {}, responses |-> NoResponses]

\* Mutant of ActiveJobSessionData: the active data are not stored.
ActiveJobSessionDataAbsent(requests, rejects, responses) ==
  [present |-> FALSE, requests |-> requests, rejects |-> rejects, responses |-> responses]

\* Some(ActiveJobSessionData { requests, rejects, responses }).
ActiveJobSessionData(requests, rejects, responses) ==
  [present |-> TRUE, requests |-> requests, rejects |-> rejects, responses |-> responses]

make_master_session_meta(threshold) ==
  [master_node_id |-> 1, self_node_id |-> 1, threshold |-> threshold]

make_slave_session_meta(threshold) ==
  [master_node_id |-> 1, self_node_id |-> 2, threshold |-> threshold]

IsMaster == meta.self_node_id = meta.master_node_id

\* BTreeMap::insert.
MapInsert(map, k, v) ==
  [n \in (DOMAIN map) \cup {k} |-> IF n = k THEN v ELSE map[n]]

\* BTreeMap::remove.
MapRemove(map, k) ==
  [n \in (DOMAIN map) \ {k} |-> map[n]]

\* BTreeSet / BTreeMap len().
Len_(s) == Cardinality(s)

\* ---------------------------------------------------------------- executor

\* The partial request the executor prepares.
PreparedRequest == 2

\* The outcomes of prepare_partial_request: the squaring executor always
\* prepares the request 2; an executor in general may also fail.
PreparePartialRequest(exec) ==
  IF exec = "SquaredSum"
  THEN {[ok |-> TRUE, request |-> PreparedRequest]}
  ELSE {[ok |-> TRUE, request |-> PreparedRequest], [ok |-> FALSE, request |-> 0]}

\* The outcomes of process_partial_request(r): the squaring executor responds
\* with r * r when r <= 10 (at most 100: no u32 overflow) and fails with
\* InvalidMessage otherwise; an executor in general responds, rejects or fails.
ProcessPartialRequest(exec, r) ==
  IF exec = "SquaredSum"
  THEN IF r <= 10
       THEN {[kind |-> "Respond", response |-> r * r, error |-> "Ok"]}
       ELSE {[kind |-> "Err", response |-> 0, error |-> "InvalidMessage"]}
  ELSE {[kind |-> k, response |-> v, error |-> "Ok"] :
          k \in {"Respond", "Reject"}, v \in ResponseValues}
       \cup {[kind |-> "Err", response |-> 0, error |-> ExecutorError]}

\* The outcomes of check_partial_response(sender, r): the squaring executor
\* accepts even responses and rejects odd ones; an executor in general
\* ignores, rejects, accepts or fails ("Err").
CheckPartialResponse(exec, sender, r) ==
  IF exec = "SquaredSum"
  THEN {IF r % 2 = 0 THEN "Accept" ELSE "Reject"}
  ELSE JobPartialResponseAction \cup {"Err"}

RECURSIVE SumValues(_)
SumValues(map) ==
  IF DOMAIN map = {} THEN 0
  ELSE LET k == CHOOSE n \in DOMAIN map : TRUE
       IN map[k] + SumValues(MapRemove(map, k))

\* Mutant of ComputeResponse: the number of partial responses.
ComputeResponseCount(partial_responses) == Len_(DOMAIN partial_responses)

\* compute_response: the sum of the partial responses.
ComputeResponse(partial_responses) == SumValues(partial_responses)

\* ------------------------------------------------------- on_partial_response

\* Mutant of RequestedNode: a node that has answered passes as well.
RequestedOrAnswered(ad, node) ==
  node \in ad.requests \/ node \in DOMAIN ad.responses

\* active_data.requests.remove(node): whether the node was there.
RequestedNode(ad, node) == node \in ad.requests

\* Mutant of RemoveRequest: the node stays in requests.
RemoveRequestKept(ad, node) == ad

\* active_data.requests.remove(node): the data afterwards.
RemoveRequest(ad, node) ==
  [ad EXCEPT !.requests = @ \ {node}]

\* The arm JobPartialResponseAction::Ignore.
IgnoreArm(st, ad, threshold, node, response) ==
  [state |-> st, active_data |-> ad, result |-> "Ok"]

\* Mutant of RejectArm: only the outstanding requests are counted.
RejectArmRequestsOnly(st, ad, threshold, node, response) ==
  LET ad2 == [ad EXCEPT !.rejects = @ \cup {node}]
  IN IF Len_(ad2.requests) >= threshold + 1
     THEN [state |-> st, active_data |-> ad2, result |-> "Ok"]
     ELSE [state |-> "Failed", active_data |-> ad2, result |-> "ConsensusUnreachable"]

\* Mutant of RejectArm: ConsensusUnreachable is returned and the state is kept.
RejectArmKeepsState(st, ad, threshold, node, response) ==
  LET ad2 == [ad EXCEPT !.rejects = @ \cup {node}]
  IN IF Len_(ad2.requests) + Len_(DOMAIN ad2.responses) >= threshold + 1
     THEN [state |-> st, active_data |-> ad2, result |-> "Ok"]
     ELSE [state |-> st, active_data |-> ad2, result |-> "ConsensusUnreachable"]

\* The arm JobPartialResponseAction::Reject.
RejectArm(st, ad, threshold, node, response) ==
  LET ad2 == [ad EXCEPT !.rejects = @ \cup {node}]
  IN IF Len_(ad2.requests) + Len_(DOMAIN ad2.responses) >= threshold + 1
     THEN [state |-> st, active_data |-> ad2, result |-> "Ok"]
     ELSE [state |-> "Failed", active_data |-> ad2, result |-> "ConsensusUnreachable"]

\* Mutant of AcceptArm: one response more than needed is waited for.
AcceptArmOffByOne(st, ad, threshold, node, response) ==
  LET ad2 == [ad EXCEPT !.responses = MapInsert(@, node, response)]
  IN IF Len_(DOMAIN ad2.responses) <= threshold + 1
     THEN [state |-> st, active_data |-> ad2, result |-> "Ok"]
     ELSE [state |-> "Finished", active_data |-> ad2, result |-> "Ok"]

\* Mutant of AcceptArm: the first accepted response finishes the session.
AcceptArmFinishes(st, ad, threshold, node, response) ==
  [state |-> "Finished",
   active_data |-> [ad EXCEPT !.responses = MapInsert(@, node, response)],
   result |-> "Ok"]

\* The arm JobPartialResponseAction::Accept.
AcceptArm(st, ad, threshold, node, response) ==
  LET ad2 == [ad EXCEPT !.responses = MapInsert(@, node, response)]
  IN IF Len_(DOMAIN ad2.responses) < threshold + 1
     THEN [state |-> st, active_data |-> ad2, result |-> "Ok"]
     ELSE [state |-> "Finished", active_data |-> ad2, result |-> "Ok"]

\* Mutant of ResponseGuard: the state is checked before the role.
ResponseGuardStateFirst(m, st) ==
  IF st # "Active" /\ st # "Finished" THEN "InvalidStateForRequest"
  ELSE IF m.self_node_id # m.master_node_id THEN "InvalidMessage"
  ELSE "Ok"

\* Mutant of ResponseGuard: a finished session takes no response.
ResponseGuardActiveOnly(m, st) ==
  IF m.self_node_id # m.master_node_id THEN "InvalidMessage"
  ELSE IF st # "Active" THEN "InvalidStateForRequest"
  ELSE "Ok"

\* The role and state checks of on_partial_response: the error they return,
\* or "Ok".
ResponseGuard(m, st) ==
  IF m.self_node_id # m.master_node_id THEN "InvalidMessage"
  ELSE IF st # "Active" /\ st # "Finished" THEN "InvalidStateForRequest"
  ELSE "Ok"

\* Mutant of OnPartialResponse: a response of a node that was not asked fails
\* the session.
OnPartialResponseMisuseFails(m, st, ad, node, response, verdict) ==
  IF ResponseGuard(m, st) # "Ok"
  THEN [state |-> st, active_data |-> ad, result |-> ResponseGuard(m, st)]
  ELSE IF ~ad.present
  THEN [state |-> st, active_data |-> ad, result |-> "Panic"]
  ELSE IF ~RequestedNode(ad, node)
  THEN [state |-> "Failed", active_data |-> ad, result |-> "InvalidNodeForRequest"]
  ELSE LET ad1 == RemoveRequest(ad, node)
       IN CASE verdict = "Err" ->
                 [state |-> st, active_data |-> ad1, result |-> ExecutorError]
            [] verdict = "Ignore" -> IgnoreArm(st, ad1, m.threshold, node, response)
            [] verdict = "Reject" -> RejectArm(st, ad1, m.threshold, node, response)
            [] verdict = "Accept" -> AcceptArm(st, ad1, m.threshold, node, response)

\* on_partial_response(node, response) with the executor's verdict on the
\* response: the state, the data and the result of the call. "Panic" is the
\* expect() on active_data failing.
OnPartialResponse(m, st, ad, node, response, verdict) ==
  IF ResponseGuard(m, st) # "Ok"
  THEN [state |-> st, active_data |-> ad, result |-> ResponseGuard(m, st)]
  ELSE IF ~ad.present
  THEN [state |-> st, active_data |-> ad, result |-> "Panic"]
  ELSE IF ~RequestedNode(ad, node)
  THEN [state |-> st, active_data |-> ad, result |-> "InvalidNodeForRequest"]
  ELSE LET ad1 == RemoveRequest(ad, node)
       IN CASE verdict = "Err" ->
                 [state |-> st, active_data |-> ad1, result |-> ExecutorError]
            [] verdict = "Ignore" -> IgnoreArm(st, ad1, m.threshold, node, response)
            [] verdict = "Reject" -> RejectArm(st, ad1, m.threshold, node, response)
            [] verdict = "Accept" -> AcceptArm(st, ad1, m.threshold, node, response)

\* ------------------------------------------------------------ on_node_error

\* Mutant of SlaveNodeError: the error of any node fails the slave.
SlaveNodeErrorAnyNode(m, st, node) ==
  [state |-> "Failed", result |-> "ConsensusUnreachable"]

\* on_node_error(node) on a slave.
SlaveNodeError(m, st, node) ==
  IF node # m.master_node_id
  THEN [state |-> st, result |-> "Ok"]
  ELSE [state |-> "Failed", result |-> "ConsensusUnreachable"]

\* Mutant of RevertFinished: a finished session stays finished.
RevertFinishedNever(st, ad, threshold) == st

\* Mutant of RevertFinished: a failed session is made active as well.
RevertFinishedOrFailed(st, ad, threshold) ==
  IF (st = "Finished" \/ st = "Failed") /\ Len_(DOMAIN ad.responses) < threshold + 1
  THEN "Active"
  ELSE st

\* The state after an errored node was moved to rejects: a finished session
\* that lost its quorum of responses is active again.
RevertFinished(st, ad, threshold) ==
  IF st = "Finished" /\ Len_(DOMAIN ad.responses) < threshold + 1
  THEN "Active"
  ELSE st

\* Mutant of MasterNodeError: a node that is in none of the sets is rejected
\* like a requested one.
MasterNodeErrorUnknownRejected(m, st, ad, node) ==
  IF ~ad.present
  THEN [state |-> st, active_data |-> ad, result |-> "Ok"]
  ELSE IF node \in ad.rejects
  THEN [state |-> st, active_data |-> ad, result |-> "Ok"]
  ELSE LET ad2 == [ad EXCEPT !.requests = @ \ {node},
                             !.responses = MapRemove(@, node),
                             !.rejects = @ \cup {node}]
           st2 == RevertFinished(st, ad2, m.threshold)
       IN IF Len_(ad2.requests) + Len_(DOMAIN ad2.responses) >= m.threshold + 1
          THEN [state |-> st2, active_data |-> ad2, result |-> "Ok"]
          ELSE [state |-> "Failed", active_data |-> ad2,
                result |-> "ConsensusUnreachable"]

\* Mutant of MasterNodeError: exactly threshold + 1 remaining nodes are too few.
MasterNodeErrorStrict(m, st, ad, node) ==
  IF ~ad.present
  THEN [state |-> st, active_data |-> ad, result |-> "Ok"]
  ELSE IF node \in ad.rejects
  THEN [state |-> st, active_data |-> ad, result |-> "Ok"]
  ELSE IF node \in ad.requests \/ node \in DOMAIN ad.responses
  THEN LET ad2 == [ad EXCEPT !.requests = @ \ {node},
                             !.responses = MapRemove(@, node),
                             !.rejects = @ \cup {node}]
           st2 == RevertFinished(st, ad2, m.threshold)
       IN IF Len_(ad2.requests) + Len_(DOMAIN ad2.responses) > m.threshold + 1
          THEN [state |-> st2, active_data |-> ad2, result |-> "Ok"]
          ELSE [state |-> "Failed", active_data |-> ad2,
                result |-> "ConsensusUnreachable"]
  ELSE [state |-> st, active_data |-> ad, result |-> "Ok"]

\* Mutant of MasterNodeError: only a node in requests is moved to rejects, a
\* node whose response was accepted is ignored.
MasterNodeErrorRequestsOnly(m, st, ad, node) ==
  IF ~ad.present
  THEN [state |-> st, active_data |-> ad, result |-> "Ok"]
  ELSE IF node \in ad.rejects
  THEN [state |-> st, active_data |-> ad, result |-> "Ok"]
  ELSE IF node \in ad.requests
  THEN LET ad2 == [ad EXCEPT !.requests = @ \ {node},
                             !.rejects = @ \cup {node}]
           st2 == RevertFinished(st, ad2, m.threshold)
       IN IF Len_(ad2.requests) + Len_(DOMAIN ad2.responses) >= m.threshold + 1
          THEN [state |-> st2, active_data |-> ad2, result |-> "Ok"]
          ELSE [state |-> "Failed", active_data |-> ad2,
                result |-> "ConsensusUnreachable"]
  ELSE [state |-> st, active_data |-> ad, result |-> "Ok"]

\* Mutant of MasterNodeError: the node is moved to rejects and the remaining
\* nodes are counted on every call, whatever collection holds the node.
MasterNodeErrorAlwaysRechecks(m, st, ad, node) ==
  IF ~ad.present
  THEN [state |-> st, active_data |-> ad, result |-> "Ok"]
  ELSE LET ad2 == [ad EXCEPT !.requests = @ \ {node},
                             !.responses = MapRemove(@, node),
                             !.rejects = @ \cup {node}]
           st2 == RevertFinished(st, ad2, m.threshold)
       IN IF Len_(ad2.requests) + Len_(DOMAIN ad2.responses) >= m.threshold + 1
          THEN [state |-> st2, active_data |-> ad2, result |-> "Ok"]
          ELSE [state |-> "Failed", active_data |-> ad2,
                result |-> "ConsensusUnreachable"]

\* on_node_error(node) on a master.
MasterNodeError(m, st, ad, node) ==
  IF ~ad.present
  THEN [state |-> st, active_data |-> ad, result |-> "Ok"]
  ELSE IF node \in ad.rejects
  THEN [state |-> st, active_data |-> ad, result |-> "Ok"]
  ELSE IF node \in ad.requests \/ node \in DOMAIN ad.responses
  THEN LET ad2 == IF node \in ad.requests
                  THEN [ad EXCEPT !.requests = @ \ {node},
                                  !.rejects = @ \cup {node}]
                  ELSE [ad EXCEPT !.responses = MapRemove(@, node),
                                  !.rejects = @ \cup {node}]
           st2 == RevertFinished(st, ad2, m.threshold)
       IN IF Len_(ad2.requests) + Len_(DOMAIN ad2.responses) >= m.threshold + 1
          THEN [state |-> st2, active_data |-> ad2, result |-> "Ok"]
          ELSE [state |-> "Failed", active_data |-> ad2,
                result |-> "ConsensusUnreachable"]
  ELSE [state |-> st, active_data |-> ad, result |-> "Ok"]

\* --------------------------------------------------------- on_session_timeout

\* Mutant of SessionTimeout: only a failed session ignores the timeout.
SessionTimeoutFailedOnly(st) ==
  IF st = "Failed"
  THEN [state |-> st, result |-> "Ok"]
  ELSE [state |-> "Failed", result |-> "ConsensusUnreachable"]

\* Mutant of SessionTimeout: the error is returned and the state is kept.
SessionTimeoutKeepsState(st) ==
  IF st = "Finished" \/ st = "Failed"
  THEN [state |-> st, result |-> "Ok"]
  ELSE [state |-> st, result |-> "ConsensusUnreachable"]

\* on_session_timeout(): the new state and the result.
SessionTimeout(st) ==
  IF st = "Finished" \/ st = "Failed"
  THEN [state |-> st, result |-> "Ok"]
  ELSE [state |-> "Failed", result |-> "ConsensusUnreachable"]

\* ------------------------------------------------------------------ result

\* Mutant of JobResult: an active session gives a result as well.
JobResultActiveToo(st, ad) ==
  IF st # "Finished" /\ st # "Active"
  THEN [result |-> "InvalidStateForRequest", output |-> -1]
  ELSE IF ~ad.present
  THEN [result |-> "Panic", output |-> -1]
  ELSE [result |-> "Ok", output |-> ComputeResponse(ad.responses)]

\* result(): the error or "Ok", and the job response (-1 when there is none).
\* "Panic" is the expect() on active_data failing.
JobResult(st, ad) ==
  IF st # "Finished"
  THEN [result |-> "InvalidStateForRequest", output |-> -1]
  ELSE IF ~ad.present
  THEN [result |-> "Panic", output |-> -1]
  ELSE [result |-> "Ok", output |-> ComputeResponse(ad.responses)]

\* --------------------------------------------------------------- initialize

\* Mutant of InitializeGuard: threshold nodes are taken to be enough.
InitializeGuardOffByOne(m, st, nodes) ==
  IF Len_(nodes) < m.threshold THEN "ConsensusUnreachable"
  ELSE IF st # "Inactive" THEN "InvalidStateForRequest"
  ELSE "Ok"

\* Mutant of InitializeGuard: the state is not checked.
InitializeGuardSizeOnly(m, st, nodes) ==
  IF Len_(nodes) < m.threshold + 1 THEN "ConsensusUnreachable"
  ELSE "Ok"

\* The checks initialize makes before it sends anything: the error, or "Ok".
InitializeGuard(m, st, nodes) ==
  IF Len_(nodes) < m.threshold + 1 THEN "ConsensusUnreachable"
  ELSE IF st # "Inactive" THEN "InvalidStateForRequest"
  ELSE "Ok"

\* Mutant of RequestsSent: the master sends a request to itself as well.
RECURSIVE RequestsSentToAll(_, _, _, _)
RequestsSentToAll(nodes, self, stop, request) ==
  IF nodes = {} THEN <<>>
  ELSE LET n == CHOOSE x \in nodes : \A y \in nodes : x <= y
       IN IF n >= stop THEN <<>>
          ELSE <<(<<n, request>>)>> \o RequestsSentToAll(nodes \ {n}, self, stop, request)

\* The nodes the request loop sends to, in the order of the BTreeSet, before
\* it reaches the node stop (MaxNode + 1: the loop runs to its end).
RECURSIVE RequestsSent(_, _, _, _)
RequestsSent(nodes, self, stop, request) ==
  IF nodes = {} THEN <<>>
  ELSE LET n == CHOOSE x \in nodes : \A y \in nodes : x <= y
       IN IF n >= stop THEN <<>>
          ELSE IF n = self THEN RequestsSent(nodes \ {n}, self, stop, request)
          ELSE <<(<<n, request>>)>> \o RequestsSent(nodes \ {n}, self, stop, request)

\* --------------------------------------------------------------- the record

\* The record of a call: the operation, its arguments (node, nodes, value: 0
\* and {} when it has none), what process_partial_request (action) and
\* check_partial_response (verdict) decided ("None" when not asked), what the
\* call returned (result, and output for the job response, -1 when none),
\* the messages it gave to the transport, and the session before the call.
Call(op, node, nodes, value, action, verdict, result, output, sent_requests, sent_responses) ==
  [op |-> op, node |-> node, nodes |-> nodes, value |-> value,
   action |-> action, verdict |-> verdict, result |-> result, output |-> output,
   sent_requests |-> sent_requests, sent_responses |-> sent_responses,
   pre_state |-> state, pre_data |-> active_data, pre_initialized |-> initialized]

\* ------------------------------------------------------------------ actions

\* JobSession::new: the session is inactive and has no active data.
Init ==
  /\ meta \in {make_master_session_meta(t) : t \in 0..MaxThreshold}
              \cup {make_slave_session_meta(t) : t \in 0..MaxThreshold}
  /\ executor \in Executors
  /\ state = "Inactive"
  /\ active_data = NoActiveData
  /\ initialized = FALSE
  /\ last = [op |-> "new", node |-> 0, nodes |-> {}, value |-> 0,
             action |-> "None", verdict |-> "None", result |-> "Ok", output |-> -1,
             sent_requests |-> <<>>, sent_responses |-> <<>>,
             pre_state |-> "Inactive", pre_data |-> NoActiveData,
             pre_initialized |-> FALSE]

\* initialize(nodes), refused by its checks.
InitializeRefused ==
  \E nodes \in SUBSET NodeId :
    /\ IsMaster
    /\ InitializeGuard(meta, state, nodes) # "Ok"
    /\ last' = Call("initialize", 0, nodes, 0, "None", "None",
                    InitializeGuard(meta, state, nodes), -1, <<>>, <<>>)
    /\ UNCHANGED <<meta, executor, state, active_data, initialized>>

\* initialize(nodes), failing while it prepares, sends or processes the
\* partial requests: the requests given to the transport (the one it failed
\* on included) stay given, the session is as it was.
InitializeFails ==
  \E nodes \in SUBSET NodeId, stop \in 1..(MaxNode + 1),
     error \in {ExecutorError, TransportError, "InvalidMessage"} :
    LET sent == RequestsSent(nodes, meta.self_node_id,
                             IF error = TransportError THEN stop + 1 ELSE stop,
                             PreparedRequest)
    IN /\ IsMaster
       /\ InitializeGuard(meta, state, nodes) = "Ok"
       /\ \/ /\ stop \in nodes \ {meta.self_node_id}
             /\ \/ error = TransportError
                \/ error = ExecutorError
                   /\ [ok |-> FALSE, request |-> 0] \in PreparePartialRequest(executor)
          \/ /\ stop = MaxNode + 1
             /\ meta.self_node_id \in nodes
             /\ \/ error = ExecutorError
                   /\ [ok |-> FALSE, request |-> 0] \in PreparePartialRequest(executor)
                \/ [kind |-> "Err", response |-> 0, error |-> error]
                     \in ProcessPartialRequest(executor, PreparedRequest)
       /\ last' = Call("initialize", 0, nodes, 0, "None", "None", error, -1, sent, <<>>)
       /\ UNCHANGED <<meta, executor, state, active_data, initialized>>

\* initialize(nodes) that commits the active data without the master among
\* the nodes: every request is sent and the session is active.
InitializeOthers ==
  \E nodes \in SUBSET NodeId :
    LET sent == RequestsSent(nodes, meta.self_node_id, MaxNode + 1, PreparedRequest)
    IN /\ IsMaster
       /\ InitializeGuard(meta, state, nodes) = "Ok"
       /\ meta.self_node_id \notin nodes
       /\ [ok |-> TRUE, request |-> PreparedRequest] \in PreparePartialRequest(executor)
       /\ state' = "Active"
       /\ active_data' = ActiveJobSessionData(nodes, {}, NoResponses)
       /\ initialized' = TRUE
       /\ last' = Call("initialize", 0, nodes, 0, "None", "None", "Ok", -1, sent, <<>>)
       /\ UNCHANGED <<meta, executor>>

\* Mutant of InitializeSelf: an own response that process_partial_request
\* marked Reject is rejected without regard to check_partial_response.
InitializeSelfRejectIsReject ==
  \E nodes \in SUBSET NodeId, action \in ProcessPartialRequest(executor, PreparedRequest) :
    \E verdict \in CheckPartialResponse(executor, meta.self_node_id, action.response) :
      LET self == meta.self_node_id
          sent == RequestsSent(nodes, self, MaxNode + 1, PreparedRequest)
          ad == ActiveJobSessionData(nodes, {}, NoResponses)
          own == OnPartialResponse(meta, "Active", ad, self, action.response,
                                   IF action.kind = "Reject" THEN "Reject" ELSE verdict)
      IN /\ IsMaster
         /\ InitializeGuard(meta, state, nodes) = "Ok"
         /\ self \in nodes
         /\ [ok |-> TRUE, request |-> PreparedRequest] \in PreparePartialRequest(executor)
         /\ action.kind # "Err"
         /\ state' = own.state
         /\ active_data' = own.active_data
         /\ initialized' = (initialized \/ own.result = "Ok")
         /\ last' = Call("initialize", self, nodes, action.response, action.kind,
                         verdict, own.result, -1, sent, <<>>)
         /\ UNCHANGED <<meta, executor>>

\* initialize(nodes) that commits the active data with the master among the
\* nodes: every request is sent, the active data and the state Active are
\* set, and the master's own response (action) goes through
\* on_partial_response, whose result is the result of initialize.
InitializeSelf ==
  \E nodes \in SUBSET NodeId, action \in ProcessPartialRequest(executor, PreparedRequest) :
    \E verdict \in CheckPartialResponse(executor, meta.self_node_id, action.response) :
      LET self == meta.self_node_id
          sent == RequestsSent(nodes, self, MaxNode + 1, PreparedRequest)
          ad == ActiveJobSessionData(nodes, {}, NoResponses)
          own == OnPartialResponse(meta, "Active", ad, self, action.response, verdict)
      IN /\ IsMaster
         /\ InitializeGuard(meta, state, nodes) = "Ok"
         /\ self \in nodes
         /\ [ok |-> TRUE, request |-> PreparedRequest] \in PreparePartialRequest(executor)
         /\ action.kind # "Err"
         /\ state' = own.state
         /\ active_data' = own.active_data
         /\ initialized' = (initialized \/ own.result = "Ok")
         /\ last' = Call("initialize", self, nodes, action.response, action.kind,
                         verdict, own.result, -1, sent, <<>>)
         /\ UNCHANGED <<meta, executor>>

\* Mutant of RequestGuard: the state is checked before the sender and the role.
RequestGuardStateFirst(m, st, node) ==
  IF st # "Inactive" /\ st # "Finished" THEN "InvalidStateForRequest"
  ELSE IF node # m.master_node_id THEN "InvalidMessage"
  ELSE IF m.self_node_id = m.master_node_id THEN "InvalidMessage"
  ELSE "Ok"

\* Mutant of RequestGuard: the state is not checked.
RequestGuardNoStateCheck(m, st, node) ==
  IF node # m.master_node_id THEN "InvalidMessage"
  ELSE IF m.self_node_id = m.master_node_id THEN "InvalidMessage"
  ELSE "Ok"

\* The role, sender and state checks of on_partial_request: the error they
\* return, or "Ok".
RequestGuard(m, st, node) ==
  IF node # m.master_node_id THEN "InvalidMessage"
  ELSE IF m.self_node_id = m.master_node_id THEN "InvalidMessage"
  ELSE IF st # "Inactive" /\ st # "Finished" THEN "InvalidStateForRequest"
  ELSE "Ok"

\* Mutant of RequestState: every processed request fails the slave.
RequestStateFailed(kind) == "Failed"

\* Mutant of RequestState: every processed request finishes the slave.
RequestStateFinished(kind) == "Finished"

\* The state a slave is in once the executor has processed the request.
RequestState(kind) ==
  IF kind = "Respond" THEN "Finished" ELSE "Failed"

\* on_partial_request(node, request), refused by its checks: nothing changes
\* and nothing is sent.
OnPartialRequestRefused ==
  \E node \in NodeId, request \in RequestValues :
    /\ RequestGuard(meta, state, node) # "Ok"
    /\ last' = Call("on_partial_request", node, {}, request, "None", "None",
                    RequestGuard(meta, state, node), -1, <<>>, <<>>)
    /\ UNCHANGED <<meta, executor, state, active_data, initialized>>

\* on_partial_request(node, request), the executor failing to process the
\* request: nothing changes and nothing is sent.
OnPartialRequestFails ==
  \E node \in NodeId, request \in RequestValues :
    \E action \in ProcessPartialRequest(executor, request) :
      /\ RequestGuard(meta, state, node) = "Ok"
      /\ action.kind = "Err"
      /\ last' = Call("on_partial_request", node, {}, request, "Err", "None",
                      action.error, -1, <<>>, <<>>)
      /\ UNCHANGED <<meta, executor, state, active_data, initialized>>

\* on_partial_request(node, request) answered by the executor: the state is
\* set, then the response is given to the transport, which sends it (sends)
\* or fails.
OnPartialRequestCall ==
  \E node \in NodeId, request \in RequestValues, sends \in BOOLEAN :
    \E action \in ProcessPartialRequest(executor, request) :
      /\ RequestGuard(meta, state, node) = "Ok"
      /\ action.kind # "Err"
      /\ state' = RequestState(action.kind)
      /\ last' = Call("on_partial_request", node, {}, request, action.kind, "None",
                      IF sends THEN "Ok" ELSE TransportError, -1, <<>>,
                      <<(<<node, action.response>>)>>)
      /\ UNCHANGED <<meta, executor, active_data, initialized>>

\* on_partial_response(node, response).
OnPartialResponseCall ==
  \E node \in NodeId, response \in ResponseValues :
    LET checked == /\ ResponseGuard(meta, state) = "Ok"
                   /\ active_data.present
                   /\ RequestedNode(active_data, node)
    IN \E verdict \in IF checked
                      THEN CheckPartialResponse(executor, node, response)
                      ELSE {"None"} :
         LET r == OnPartialResponse(meta, state, active_data, node, response, verdict)
         IN /\ state' = r.state
            /\ active_data' = r.active_data
            /\ last' = Call("on_partial_response", node, {}, response, "None", verdict,
                            r.result, -1, <<>>, <<>>)
            /\ UNCHANGED <<meta, executor, initialized>>

\* on_node_error(node).
OnNodeErrorCall ==
  \E node \in NodeId :
    LET r == IF IsMaster
             THEN MasterNodeError(meta, state, active_data, node)
             ELSE [state |-> SlaveNodeError(meta, state, node).state,
                   active_data |-> active_data,
                   result |-> SlaveNodeError(meta, state, node).result]
    IN /\ state' = r.state
       /\ active_data' = r.active_data
       /\ last' = Call("on_node_error", node, {}, 0, "None", "None", r.result, -1, <<>>, <<>>)
       /\ UNCHANGED <<meta, executor, initialized>>

\* on_session_timeout().
OnSessionTimeoutCall ==
  /\ state' = SessionTimeout(state).state
  /\ last' = Call("on_session_timeout", 0, {}, 0, "None", "None",
                  SessionTimeout(state).result, -1, <<>>, <<>>)
  /\ UNCHANGED <<meta, executor, active_data, initialized>>

\* result().
ResultCall ==
  /\ IsMaster
  /\ last' = Call("result", 0, {}, 0, "None", "None", JobResult(state, active_data).result,
                  JobResult(state, active_data).output, <<>>, <<>>)
  /\ UNCHANGED <<meta, executor, state, active_data, initialized>>

Next ==
  \/ InitializeRefused
  \/ InitializeFails
  \/ InitializeOthers
  \/ InitializeSelf
  \/ OnPartialRequestRefused
  \/ OnPartialRequestFails
  \/ OnPartialRequestCall
  \/ OnPartialResponseCall
  \/ OnNodeErrorCall
  \/ OnSessionTimeoutCall
  \/ ResultCall

Spec == Init /\ [][Next]_vars

\* ------------------------------------------------------------------ claims

\* The sets of the active data after the call and before it.
Requests == active_data.requests
Rejects == active_data.rejects
Responses == active_data.responses
Responders == DOMAIN active_data.responses
Remaining(ad) == Len_(ad.requests) + Len_(DOMAIN ad.responses)

\* The latest call is an on_partial_response on which the executor gave the
\* verdict v.
ResponseChecked(v) ==
  last.op = "on_partial_response" /\ last.verdict = v

\* C1: on a master, requests, rejects and the keys of responses are pairwise
\* disjoint in every reachable state.
C1_Disjoint ==
  IsMaster =>
    /\ Requests \cap Rejects = {}
    /\ Requests \cap Responders = {}
    /\ Rejects \cap Responders = {}

C1_Witness ==
  /\ IsMaster
  /\ Requests # {}
  /\ Rejects # {}
  /\ Responders # {}

\* C2: on a master, whenever the state is Active or Finished,
\* requests.len() + responses.len() >= threshold + 1, whatever the executor
\* decides (Accept, Reject, Ignore or an error).
C2_Original ==
  (IsMaster /\ state \in {"Active", "Finished"}) =>
    Remaining(active_data) >= meta.threshold + 1

\* C3: an accepted on_partial_response stores the response under the node
\* and returns Ok; the state is Finished when responses.len() >= threshold + 1
\* and is otherwise the state before the call, which is Active.
C3_Accept ==
  ResponseChecked("Accept") =>
    /\ last.result = "Ok"
    /\ last.node \in Responders
    /\ Responses[last.node] = last.value
    /\ active_data = [last.pre_data EXCEPT
                        !.requests = @ \ {last.node},
                        !.responses = MapInsert(@, last.node, last.value)]
    /\ IF Len_(Responders) >= meta.threshold + 1
       THEN state = "Finished"
       ELSE state = last.pre_state /\ state = "Active"

C3_Witness ==
  /\ ResponseChecked("Accept")
  /\ last.pre_state = "Active"
  /\ state = "Finished"
  /\ meta.threshold >= 1

\* C4: a rejected on_partial_response moves the node from requests to
\* rejects; with requests.len() + responses.len() >= threshold + 1 it returns
\* Ok and the state is unchanged, otherwise the state is Failed and it
\* returns ConsensusUnreachable.
C4_Reject ==
  ResponseChecked("Reject") =>
    /\ last.node \in last.pre_data.requests
    /\ active_data = [last.pre_data EXCEPT
                        !.requests = @ \ {last.node},
                        !.rejects = @ \cup {last.node}]
    /\ IF Remaining(active_data) >= meta.threshold + 1
       THEN last.result = "Ok" /\ state = last.pre_state
       ELSE last.result = "ConsensusUnreachable" /\ state = "Failed"

C4_Witness ==
  /\ ResponseChecked("Reject")
  /\ last.result = "ConsensusUnreachable"
  /\ last.pre_state = "Active"
  /\ last.pre_data.responses # NoResponses

\* C5: an on_partial_response on which the executor returns Ignore changes
\* nothing: the state, requests, rejects and responses are as before the call.
C5_Original ==
  ResponseChecked("Ignore") =>
    /\ state = last.pre_state
    /\ active_data = last.pre_data

\* C6: on a master in state Active or Finished, on_partial_response from a
\* node that is not in requests returns InvalidNodeForRequest and changes
\* nothing; a node whose response was checked is no longer in requests, so
\* that its response is taken into account at most once.
C6_UnknownNode ==
  last.op = "on_partial_response" =>
    /\ (/\ IsMaster
        /\ last.pre_state \in {"Active", "Finished"}
        /\ last.node \notin last.pre_data.requests)
       => /\ last.result = "InvalidNodeForRequest"
          /\ last.verdict = "None"
          /\ state = last.pre_state
          /\ active_data = last.pre_data
    /\ last.verdict # "None"
       => /\ last.node \in last.pre_data.requests
          /\ last.node \notin Requests

C6_Witness ==
  /\ last.op = "on_partial_response"
  /\ last.result = "InvalidNodeForRequest"
  /\ last.node \in Responders

\* C7: on_partial_response returns InvalidMessage on a slave in every state,
\* and InvalidStateForRequest on a master in state Inactive or Failed; the
\* executor is asked only on a master in state Active or Finished.
C7_ResponseGuard ==
  last.op = "on_partial_response" =>
    /\ ~IsMaster => last.result = "InvalidMessage"
    /\ (IsMaster /\ last.pre_state \in {"Inactive", "Failed"})
       => last.result = "InvalidStateForRequest"
    /\ last.verdict # "None"
       => IsMaster /\ last.pre_state \in {"Active", "Finished"}
    /\ last.result \in {"InvalidMessage", "InvalidStateForRequest"}
       => state = last.pre_state /\ active_data = last.pre_data

C7_Witness ==
  /\ last.op = "on_partial_response"
  /\ IsMaster
  /\ last.pre_state = "Failed"
  /\ last.pre_data.requests # {}
  /\ last.node \in last.pre_data.requests
  /\ last.result = "InvalidStateForRequest"

\* C8: initialize(nodes) with nodes.len() < threshold + 1 fails with
\* ConsensusUnreachable and sends no partial request.
C8_TooFewNodes ==
  (last.op = "initialize" /\ Len_(last.nodes) < meta.threshold + 1) =>
    /\ last.result = "ConsensusUnreachable"
    /\ last.sent_requests = <<>>
    /\ state = last.pre_state
    /\ active_data = last.pre_data

C8_Witness ==
  /\ last.op = "initialize"
  /\ last.pre_state = "Inactive"
  /\ Len_(last.nodes) = meta.threshold
  /\ Len_(last.nodes) >= 2
  /\ last.result = "ConsensusUnreachable"

\* C9 as stated: once initialize has returned Ok, every further initialize,
\* for any node set, fails with InvalidStateForRequest.
C9_Original ==
  (last.op = "initialize" /\ last.pre_initialized) =>
    last.result = "InvalidStateForRequest"

\* C9 as amended: once initialize has returned Ok, every further initialize
\* fails and changes nothing: with InvalidStateForRequest for a node set of
\* at least threshold + 1 nodes, with ConsensusUnreachable for a smaller one.
C9_SecondInitialize ==
  (last.op = "initialize" /\ last.pre_initialized) =>
    /\ last.result = IF Len_(last.nodes) >= meta.threshold + 1
                     THEN "InvalidStateForRequest"
                     ELSE "ConsensusUnreachable"
    /\ last.sent_requests = <<>>
    /\ state = last.pre_state
    /\ active_data = last.pre_data

C9_Witness ==
  /\ last.op = "initialize"
  /\ last.pre_initialized
  /\ last.pre_state = "Finished"
  /\ Len_(last.nodes) >= meta.threshold + 1
  /\ last.result = "InvalidStateForRequest"

\* The latest call is an initialize with exactly threshold + 1 nodes, the
\* master among them, on which the executor accepted the master's own
\* response.
InitializeExact ==
  /\ last.op = "initialize"
  /\ meta.self_node_id \in last.nodes
  /\ Len_(last.nodes) = meta.threshold + 1
  /\ last.verdict = "Accept"

\* C10 as stated: for every threshold, a master that initializes with exactly
\* threshold + 1 nodes, itself among them, whose responses are accepted, is
\* Finished when initialize returns.
C10_Original ==
  InitializeExact => state = "Finished"

\* C10 as amended: such an initialize returns Ok with the master's own
\* response as the only accepted one; the state is Finished when
\* threshold = 0 and Active when threshold >= 1, the other threshold nodes
\* being still in requests.
C10_ExactNodes ==
  InitializeExact =>
    /\ last.result = "Ok"
    /\ Responses = MapInsert(NoResponses, meta.self_node_id, last.value)
    /\ Requests = last.nodes \ {meta.self_node_id}
    /\ state = IF meta.threshold = 0 THEN "Finished" ELSE "Active"

C10_Witness ==
  /\ InitializeExact
  /\ meta.threshold = 2
  /\ state = "Active"


\* The latest call is an initialize that returned Ok.
InitializeOk ==
  last.op = "initialize" /\ last.result = "Ok"

\* C11: when initialize returns Ok, the state is Finished if the accepted
\* responses number at least threshold + 1 and Active otherwise; it is Active
\* whenever the master is not one of the nodes.
C11_InitializeState ==
  InitializeOk =>
    /\ state = IF Len_(Responders) >= meta.threshold + 1 THEN "Finished" ELSE "Active"
    /\ Responders \subseteq {meta.self_node_id}
    /\ meta.self_node_id \notin last.nodes => state = "Active" /\ Responders = {}

C11_Witness ==
  /\ InitializeOk
  /\ meta.self_node_id \in last.nodes
  /\ last.verdict = "Accept"
  /\ state = "Finished"

\* The nodes and the requests of the messages of a sequence sent.
SentNodes(sent) == {sent[i][1] : i \in DOMAIN sent}
SentPayloads(sent) == {sent[i][2] : i \in DOMAIN sent}

\* C12: a successful initialize(nodes) sends exactly one partial request to
\* every node of nodes other than the master, none to the master, and leaves
\* requests equal to nodes without the master, whose response was processed
\* in-process.
C12_RequestsSent ==
  InitializeOk =>
    /\ SentNodes(last.sent_requests) = last.nodes \ {meta.self_node_id}
    /\ Len(last.sent_requests) = Len_(last.nodes \ {meta.self_node_id})
    /\ SentPayloads(last.sent_requests) \subseteq {PreparedRequest}
    /\ last.sent_responses = <<>>
    /\ Requests = last.nodes \ {meta.self_node_id}

C12_Witness ==
  /\ InitializeOk
  /\ last.nodes = NodeId
  /\ Len(last.sent_requests) = MaxNode - 1

\* The latest call is an on_node_error on a master.
MasterErrorCall ==
  last.op = "on_node_error" /\ IsMaster

\* The nodes the data holds in one of its three collections.
KnownNodes(ad) == ad.requests \cup ad.rejects \cup DOMAIN ad.responses

\* The data with the node moved from requests or responses to rejects.
MovedToRejects(ad, node) ==
  [ad EXCEPT !.requests = @ \ {node},
             !.responses = MapRemove(@, node),
             !.rejects = @ \cup {node}]

\* C13: on a master, on_node_error(node) for a node that is in rejects, or in
\* none of requests, rejects and responses, returns Ok and changes neither
\* the state nor the three collections.
C13_NodeErrorIgnored ==
  (MasterErrorCall /\ (\/ last.node \in last.pre_data.rejects
                       \/ last.node \notin KnownNodes(last.pre_data))) =>
    /\ last.result = "Ok"
    /\ state = last.pre_state
    /\ active_data = last.pre_data

C13_Witness ==
  /\ MasterErrorCall
  /\ last.node \in last.pre_data.rejects
  /\ last.pre_state = "Active"
  /\ last.result = "Ok"

\* C14: on an initialized master, on_node_error(node) for a node in requests
\* or responses moves it to rejects; it returns Ok when
\* requests.len() + responses.len() >= threshold + 1 afterwards, and otherwise
\* sets the state to Failed and returns ConsensusUnreachable.
C14_NodeErrorMoves ==
  (/\ MasterErrorCall
   /\ last.pre_data.present
   /\ last.node \in last.pre_data.requests \cup DOMAIN last.pre_data.responses) =>
    /\ active_data = MovedToRejects(last.pre_data, last.node)
    /\ IF Remaining(active_data) >= meta.threshold + 1
       THEN last.result = "Ok" /\ state # "Inactive"
       ELSE last.result = "ConsensusUnreachable" /\ state = "Failed"

C14_Witness ==
  /\ MasterErrorCall
  /\ last.node \in last.pre_data.requests
  /\ Remaining(active_data) = meta.threshold + 1
  /\ meta.threshold >= 1
  /\ last.result = "Ok"
  /\ state = "Active"

\* The latest call is an on_node_error on a finished master for a node whose
\* response was accepted, which leaves fewer than threshold + 1 responses and
\* at least threshold + 1 requests and responses.
Reverting ==
  /\ MasterErrorCall
  /\ last.pre_state = "Finished"
  /\ last.node \in DOMAIN last.pre_data.responses
  /\ Len_(Responders) < meta.threshold + 1
  /\ Remaining(active_data) >= meta.threshold + 1

\* C15: such an on_node_error returns Ok and moves the state back to Active;
\* a request is then outstanding, and the next accepted response brings the
\* session to Finished again.
C15_Revert ==
  Reverting =>
    /\ last.result = "Ok"
    /\ state = "Active"
    /\ Requests # {}
    /\ \A n \in Requests, v \in ResponseValues :
         OnPartialResponse(meta, state, active_data, n, v, "Accept").state = "Finished"

C15_Witness ==
  /\ Reverting
  /\ meta.threshold >= 1
  /\ state = "Active"

\* The data before the latest call held exactly these requests, rejects and
\* responders.
PreData(requests, rejects, responders) ==
  /\ last.pre_data.present
  /\ last.pre_data.requests = requests
  /\ last.pre_data.rejects = rejects
  /\ DOMAIN last.pre_data.responses = responders

\* C16: on a master (node 1) with threshold 1 initialized with nodes {1, 2},
\* an accepted response of node 2 brings the state to Finished, and an
\* on_node_error(2) after it returns ConsensusUnreachable and leaves Failed.
C16_ErrorAfterFinish ==
  /\ (/\ IsMaster /\ meta.threshold = 1
      /\ last.op = "on_partial_response" /\ last.node = 2
      /\ last.verdict = "Accept"
      /\ last.pre_state = "Active"
      /\ PreData({2}, {}, {1})) =>
       last.result = "Ok" /\ state = "Finished"
  /\ (/\ IsMaster /\ meta.threshold = 1
      /\ last.op = "on_node_error" /\ last.node = 2
      /\ last.pre_state = "Finished"
      /\ PreData({}, {}, {1, 2})) =>
       last.result = "ConsensusUnreachable" /\ state = "Failed"

C16_Witness ==
  /\ IsMaster /\ meta.threshold = 1
  /\ last.op = "on_node_error" /\ last.node = 2
  /\ last.pre_state = "Finished"
  /\ PreData({}, {}, {1, 2})
  /\ state = "Failed"

\* C17: a master (node 1) with threshold 1 initialized with nodes {1, 2, 3}
\* is Active after initialize; a rejected response of node 2 returns Ok and
\* keeps Active; an on_node_error(3) after it returns ConsensusUnreachable and
\* sets Failed.
C17_RejectThenError ==
  /\ (/\ InitializeOk /\ meta.threshold = 1
      /\ last.nodes = {1, 2, 3}
      /\ last.verdict = "Accept") =>
       state = "Active" /\ Requests = {2, 3} /\ Responders = {1} /\ Rejects = {}
  /\ (/\ IsMaster /\ meta.threshold = 1
      /\ last.op = "on_partial_response" /\ last.node = 2
      /\ last.verdict = "Reject"
      /\ last.pre_state = "Active"
      /\ PreData({2, 3}, {}, {1})) =>
       last.result = "Ok" /\ state = "Active"
  /\ (/\ IsMaster /\ meta.threshold = 1
      /\ last.op = "on_node_error" /\ last.node = 3
      /\ last.pre_state = "Active"
      /\ PreData({3}, {2}, {1})) =>
       last.result = "ConsensusUnreachable" /\ state = "Failed"

C17_Witness ==
  /\ IsMaster /\ meta.threshold = 1
  /\ last.op = "on_node_error" /\ last.node = 3
  /\ last.pre_state = "Active"
  /\ PreData({3}, {2}, {1})
  /\ state = "Failed"

\* C18: with SquaredSumJobExecutor and threshold 0 on node 1, initialize({2})
\* sends the request 2 to node 2 and leaves Active; on_partial_response(2, 4)
\* is accepted and makes the state Finished; result() then returns 4.
C18_SquaredSum ==
  (executor = "SquaredSum" /\ IsMaster /\ meta.threshold = 0) =>
    /\ (InitializeOk /\ last.nodes = {2}) =>
         /\ last.sent_requests = << <<2, 2>> >>
         /\ state = "Active"
         /\ Requests = {2}
    /\ (/\ last.op = "on_partial_response" /\ last.node = 2 /\ last.value = 4
        /\ last.pre_state = "Active"
        /\ PreData({2}, {}, {})) =>
         /\ last.verdict = "Accept"
         /\ last.result = "Ok"
         /\ state = "Finished"
         /\ Responses = (2 :> 4)
    /\ (/\ last.op = "result"
        /\ state = "Finished"
        /\ active_data.present
        /\ Responses = (2 :> 4)) =>
         last.result = "Ok" /\ last.output = 4

C18_Witness ==
  /\ executor = "SquaredSum" /\ IsMaster /\ meta.threshold = 0
  /\ last.op = "result"
  /\ state = "Finished"
  /\ Requests = {} /\ Rejects = {}
  /\ Responses = (2 :> 4)
  /\ last.output = 4

\* C19: on_session_timeout in Finished or Failed returns Ok and changes
\* neither the state nor the session data, and so does a call after it.
C19_TimeoutNoOp ==
  (last.op = "on_session_timeout" /\ last.pre_state \in {"Finished", "Failed"}) =>
    /\ last.result = "Ok"
    /\ state = last.pre_state
    /\ active_data = last.pre_data
    /\ initialized = last.pre_initialized
    /\ last.sent_requests = <<>> /\ last.sent_responses = <<>>
    /\ SessionTimeout(state) = [state |-> state, result |-> "Ok"]

C19_Witness ==
  /\ last.op = "on_session_timeout"
  /\ last.pre_state = "Finished"
  /\ IsMaster
  /\ Len_(Responders) >= 2

\* C20: on_session_timeout in Inactive or Active sets the state to Failed and
\* returns ConsensusUnreachable.
C20_TimeoutFails ==
  (last.op = "on_session_timeout" /\ last.pre_state \in {"Inactive", "Active"}) =>
    /\ last.result = "ConsensusUnreachable"
    /\ state = "Failed"

C20_Witness ==
  /\ last.op = "on_session_timeout"
  /\ last.pre_state = "Active"
  /\ IsMaster
  /\ Requests # {}
  /\ state = "Failed"

\* The latest call is an on_partial_request.
RequestCall == last.op = "on_partial_request"

\* The latest call gave the transport exactly one partial response, addressed
\* to the master.
OneResponseToMaster ==
  /\ Len(last.sent_responses) = 1
  /\ last.sent_responses[1][1] = meta.master_node_id
  /\ last.sent_requests = <<>>

\* C21: on_partial_request from a node that is not the master, or on a
\* session that is the master, returns InvalidMessage in every state and for
\* every request, asks the executor nothing and sends nothing.
C21_RequestNotFromMaster ==
  (RequestCall /\ (last.node # meta.master_node_id \/ IsMaster)) =>
    /\ last.result = "InvalidMessage"
    /\ last.action = "None"
    /\ last.sent_responses = <<>> /\ last.sent_requests = <<>>
    /\ state = last.pre_state

C21_Witness ==
  /\ RequestCall
  /\ ~IsMaster
  /\ last.node # meta.master_node_id
  /\ last.pre_state = "Failed"
  /\ last.result = "InvalidMessage"

\* C22: on a slave, on_partial_request from the master is refused with
\* InvalidStateForRequest, nothing being sent, in state Failed; the request
\* reaches the executor in the states Inactive and Finished and in no other.
C22_RequestState ==
  (RequestCall /\ ~IsMaster /\ last.node = meta.master_node_id) =>
    /\ last.pre_state = "Failed" =>
         /\ last.result = "InvalidStateForRequest"
         /\ last.sent_responses = <<>> /\ last.sent_requests = <<>>
         /\ state = "Failed"
    /\ last.action # "None" <=> last.pre_state \in {"Inactive", "Finished"}

C22_Witness ==
  /\ RequestCall
  /\ ~IsMaster
  /\ last.node = meta.master_node_id
  /\ last.pre_state = "Failed"
  /\ last.result = "InvalidStateForRequest"

\* C23: an on_partial_request the executor answers with Respond is one from
\* the master to a slave in state Inactive or Finished; it sets the state to
\* Finished and gives the transport exactly one partial response, addressed
\* to the master (the square of the request with SquaredSumJobExecutor); the
\* slave then takes the next request of the master in the same way.
C23_Respond ==
  (RequestCall /\ last.action = "Respond") =>
    /\ ~IsMaster /\ last.node = meta.master_node_id
    /\ last.pre_state \in {"Inactive", "Finished"}
    /\ state = "Finished"
    /\ OneResponseToMaster
    /\ executor = "SquaredSum" => last.sent_responses[1][2] = last.value * last.value
    /\ RequestGuard(meta, state, meta.master_node_id) = "Ok"

C23_Witness ==
  /\ RequestCall /\ last.action = "Respond"
  /\ last.pre_state = "Finished"
  /\ last.result = "Ok"
  /\ state = "Finished"

\* C24: an on_partial_request the executor answers with Reject sets the
\* state of the slave to Failed and still gives the transport the rejection
\* response, addressed to the master; a failed slave stays failed and sends
\* no response to any further partial request.
C24_Reject ==
  /\ (RequestCall /\ last.action = "Reject") =>
       /\ ~IsMaster /\ last.node = meta.master_node_id
       /\ last.pre_state \in {"Inactive", "Finished"}
       /\ state = "Failed"
       /\ OneResponseToMaster
       /\ \A n \in NodeId : RequestGuard(meta, state, n) # "Ok"
  /\ (~IsMaster /\ last.pre_state = "Failed") =>
       /\ state = "Failed"
       /\ last.sent_responses = <<>>
       /\ last.action = "None"

C24_Witness ==
  /\ RequestCall /\ last.action = "Reject"
  /\ last.pre_state = "Finished"
  /\ last.result = "Ok"
  /\ state = "Failed"

\* C25: on a slave, on_node_error(node) sets the state to Failed and returns
\* ConsensusUnreachable when node is the master, from any state, and returns
\* Ok without changing the state for every other node.
C25_SlaveNodeError ==
  (last.op = "on_node_error" /\ ~IsMaster) =>
    /\ active_data = last.pre_data
    /\ IF last.node = meta.master_node_id
       THEN last.result = "ConsensusUnreachable" /\ state = "Failed"
       ELSE last.result = "Ok" /\ state = last.pre_state

C25_Witness ==
  /\ last.op = "on_node_error" /\ ~IsMaster
  /\ last.node = meta.master_node_id
  /\ last.pre_state = "Finished"
  /\ state = "Failed"

\* C26: on a master, result() returns InvalidStateForRequest in the states
\* Inactive, Active and Failed; in state Finished it returns the sum the
\* executor computes over exactly the responses map, which holds no rejected
\* node; in every case the session is left as it was.
C26_Result ==
  last.op = "result" =>
    /\ IsMaster
    /\ state = last.pre_state
    /\ active_data = last.pre_data
    /\ last.sent_requests = <<>> /\ last.sent_responses = <<>>
    /\ IF state = "Finished"
       THEN /\ last.result = "Ok"
            /\ last.output = SumValues(Responses)
            /\ Responders \cap Rejects = {}
       ELSE /\ last.result = "InvalidStateForRequest"
            /\ last.output = -1

C26_Witness ==
  /\ last.op = "result"
  /\ state = "Finished"
  /\ Len_(Responders) >= 2
  /\ Rejects # {}
  /\ last.output = SumValues(Responses)

\* C27: a failed session stays failed under every operation; a finished
\* session leaves Finished for a state that is not Failed only through
\* on_node_error on the master, which makes it Active; no operation brings
\* a session that has left Inactive back to it.
C27_Terminal ==
  /\ last.pre_state = "Failed" => state = "Failed"
  /\ (last.pre_state = "Finished" /\ state \notin {"Finished", "Failed"}) =>
       /\ last.op = "on_node_error"
       /\ IsMaster
       /\ state = "Active"
  /\ last.pre_state # "Inactive" => state # "Inactive"

C27_Witness ==
  /\ last.pre_state = "Failed"
  /\ last.op = "on_node_error"
  /\ IsMaster
  /\ last.node \in last.pre_data.requests
  /\ Len_(Responders) < meta.threshold + 1
  /\ last.result = "Ok"
  /\ state = "Failed"

\* C28 as stated: whenever initialize, on_partial_response, on_node_error or
\* on_session_timeout returns ConsensusUnreachable, the state after the call
\* is Failed.
C28_Original ==
  (/\ last.op \in {"initialize", "on_partial_response", "on_node_error",
                   "on_session_timeout"}
   /\ last.result = "ConsensusUnreachable") =>
    state = "Failed"

\* C28 as amended: a call that returns ConsensusUnreachable leaves the state
\* Failed, except an initialize refused for a node set of fewer than
\* threshold + 1 nodes, which changes nothing.
C28_ConsensusUnreachable ==
  last.result = "ConsensusUnreachable" =>
    /\ last.op \in {"initialize", "on_partial_response", "on_node_error",
                    "on_session_timeout"}
    /\ IF last.op = "initialize" /\ Len_(last.nodes) < meta.threshold + 1
       THEN state = last.pre_state /\ active_data = last.pre_data
       ELSE state = "Failed"

C28_Witness ==
  /\ last.op = "initialize"
  /\ last.result = "ConsensusUnreachable"
  /\ Len_(last.nodes) >= meta.threshold + 1
  /\ last.pre_state = "Inactive"
  /\ state = "Failed"

\* C29: a call of initialize, on_partial_request, on_partial_response or
\* result that returns InvalidMessage, InvalidStateForRequest or
\* InvalidNodeForRequest leaves the state and the requests, rejects and
\* responses as they were before the call, and sends no message.
C29_MisuseChangesNothing ==
  (/\ last.op \in {"initialize", "on_partial_request", "on_partial_response", "result"}
   /\ last.result \in {"InvalidMessage", "InvalidStateForRequest",
                       "InvalidNodeForRequest"}) =>
    /\ state = last.pre_state
    /\ active_data = last.pre_data
    /\ last.sent_requests = <<>> /\ last.sent_responses = <<>>

C29_Witness ==
  /\ last.op = "on_partial_response"
  /\ last.result = "InvalidNodeForRequest"
  /\ last.node \in DOMAIN last.pre_data.responses
  /\ Requests # {}
  /\ state = "Active"

\* C30 as stated: when a send of the transport fails during initialize or
\* on_partial_request, the call returns that error and the state after the
\* call is the state before it.
C30_Original ==
  (/\ last.op \in {"initialize", "on_partial_request"}
   /\ last.result = TransportError) =>
    state = last.pre_state

\* C31 as stated: when initialize or on_partial_response returns an error of
\* the executor or of the transport, the state after the call is Failed.
C31_Original ==
  (/\ last.op \in {"initialize", "on_partial_response"}
   /\ last.result \in {ExecutorError, TransportError}) =>
    state = "Failed"

\* C32: on a master in state Active or Finished the active data are present,
\* and no call ends in the panic of a missing active data; initialize has
\* stored the data and the state Active when it replays the own response.
C32_ActiveDataPresent ==
  /\ (IsMaster /\ state \in {"Active", "Finished"}) => active_data.present
  /\ last.result # "Panic"
  /\ (last.op = "initialize" /\ last.verdict # "None") => active_data.present

C32_Witness ==
  /\ last.op = "initialize"
  /\ last.verdict = "Accept"
  /\ last.pre_data = NoActiveData
  /\ active_data.present
  /\ state = "Finished"

\* C33: the own response of the master is handled inside initialize as
\* on_partial_response(self, response) handles it on an active session whose
\* requests are the nodes of initialize: the state, the data and the result
\* are the same, whether process_partial_request answered Respond or Reject.
C33_SelfResponse ==
  (last.op = "initialize" /\ last.action \in {"Respond", "Reject"}) =>
    LET r == OnPartialResponse(meta, "Active",
                               ActiveJobSessionData(last.nodes, {}, NoResponses),
                               meta.self_node_id, last.value, last.verdict)
    IN /\ meta.self_node_id \in last.nodes
       /\ state = r.state
       /\ active_data = r.active_data
       /\ last.result = r.result

C33_Witness ==
  /\ last.op = "initialize"
  /\ last.action = "Reject"
  /\ last.verdict = "Accept"
  /\ Responses = (meta.self_node_id :> last.value)
  /\ state = "Finished"

\* C34 as stated, for two calls in a row: only initialize gives the
\* transport a partial request, no call gives it two for one node, and no
\* node that was sent a partial request by a call is sent one by the next.
C34_Original ==
  [][/\ last'.op # "initialize" => last'.sent_requests = <<>>
     /\ Len(last'.sent_requests) = Len_(SentNodes(last'.sent_requests))
     /\ SentNodes(last.sent_requests) \cap SentNodes(last'.sent_requests) = {}]_vars

\* C35: on a finished master, a response of a node that is still in
\* requests is taken: an accepted one is added to responses, the state stays
\* Finished and result() is the sum over all responses, the late one
\* included; a rejected one returns Ok and the state stays Finished.
C35_LateResponse ==
  (/\ last.op = "on_partial_response"
   /\ last.pre_state = "Finished"
   /\ last.node \in last.pre_data.requests) =>
    /\ last.verdict # "None"
    /\ last.verdict = "Accept" =>
         /\ last.result = "Ok"
         /\ state = "Finished"
         /\ Responses = MapInsert(last.pre_data.responses, last.node, last.value)
         /\ Len_(Responders) > meta.threshold + 1
         /\ JobResult(state, active_data) =
              [result |-> "Ok",
               output |-> SumValues(last.pre_data.responses) + last.value]
    /\ last.verdict = "Reject" =>
         /\ last.result = "Ok"
         /\ state = "Finished"
         /\ Responses = last.pre_data.responses

C35_Witness ==
  /\ last.op = "on_partial_response"
  /\ last.pre_state = "Finished"
  /\ last.verdict = "Accept"
  /\ Len_(Responders) = meta.threshold + 2
  /\ meta.threshold >= 1
  /\ state = "Finished"

\* C36: on a master, a finished session holds at least threshold + 1
\* responses and an active one at most threshold.
C36_Quorum ==
  IsMaster =>
    /\ state = "Finished" => Len_(Responders) >= meta.threshold + 1
    /\ state = "Active" => Len_(Responders) <= meta.threshold

C36_Witness ==
  /\ IsMaster
  /\ state = "Active"
  /\ last.pre_state = "Finished"
  /\ Len_(Responders) = meta.threshold
  /\ meta.threshold >= 1

\* C37: the call that stores the active data is an initialize, and the
\* requests, rejects and responders it stores are among its nodes; every call
\* after it leaves requests a subset of what it was and rejects a superset,
\* and brings no node into the three collections that was in none of them.
C37_Monotone ==
  /\ (~last.pre_data.present /\ active_data.present) =>
       /\ last.op = "initialize"
       /\ KnownNodes(active_data) \subseteq last.nodes
       /\ Requests \subseteq last.nodes \ {meta.self_node_id}
  /\ last.pre_data.present =>
       /\ active_data.present
       /\ Requests \subseteq last.pre_data.requests
       /\ last.pre_data.rejects \subseteq Rejects
       /\ KnownNodes(active_data) \subseteq KnownNodes(last.pre_data)

C37_Witness ==
  /\ last.pre_data.present
  /\ last.op = "on_node_error"
  /\ last.node \in DOMAIN last.pre_data.responses
  /\ Rejects = last.pre_data.rejects \cup {last.node}
  /\ Requests # {}

\* C38: on a master, an on_node_error(n) that follows an on_node_error(n)
\* returns Ok and changes neither the state nor the three collections.
C38_NodeErrorIdempotent ==
  MasterErrorCall =>
    MasterNodeError(meta, state, active_data, last.node) =
      [state |-> state, active_data |-> active_data, result |-> "Ok"]

C38_Witness ==
  /\ MasterErrorCall
  /\ last.result = "ConsensusUnreachable"
  /\ last.node \in Rejects
  /\ Requests # {}
  /\ state = "Failed"

\* The orders in which one response of each node of the set can be delivered.
Orders(nodes) ==
  {o \in [1..Len_(nodes) -> nodes] : \A i, j \in 1..Len_(nodes) : o[i] = o[j] => i = j}

\* The session after on_partial_response was called for the nodes of order,
\* one after the other, the executor accepting the responses of the nodes in
\* accepted and rejecting the others.
RECURSIVE Deliver(_, _, _, _, _)
Deliver(m, st, ad, order, accepted) ==
  IF order = <<>>
  THEN [state |-> st, active_data |-> ad]
  ELSE LET node == Head(order)
           r == OnPartialResponse(m, st, ad, node,
                                  IF node \in accepted THEN 4 ELSE 3,
                                  IF node \in accepted THEN "Accept" ELSE "Reject")
       IN Deliver(m, r.state, r.active_data, Tail(order), accepted)

\* The latest call is an initialize that returned Ok without the executor
\* having ignored the own response.
InitializedByVerdict == InitializeOk /\ last.verdict # "Ignore"

\* C39: after initialize, when one response of every requested node is
\* delivered and each is accepted or rejected, the final state is Finished if
\* the acceptable responses, the own one included, are at least
\* threshold + 1 and Failed otherwise, in whatever order they are delivered.
C39_OrderIndependent ==
  InitializedByVerdict =>
    \A accepted \in SUBSET Requests :
      \A order \in Orders(Requests) :
        Deliver(meta, state, active_data, order, accepted).state =
          IF Len_(Responders) + Len_(accepted) >= meta.threshold + 1
          THEN "Finished"
          ELSE "Failed"

C39_Witness ==
  /\ InitializedByVerdict
  /\ meta.threshold = 1
  /\ Requests = {2, 3}
  /\ Responders = {1}
  /\ Deliver(meta, state, active_data, <<3, 2>>, {2}).state = "Finished"
  /\ Deliver(meta, state, active_data, <<2, 3>>, {}).state = "Failed"

\* C40 as stated: on a master whose active data are stored, once no node is
\* left in requests (each has had a response processed or an error reported)
\* the state is Finished or Failed.
C40_Original ==
  (IsMaster /\ active_data.present /\ Requests = {}) =>
    state \in {"Finished", "Failed"}

====
